---- MODULE Spec2Model ----
(***************************************************************************)
(* A model of github.com/platinasystems/nvram: the CMOS layout, the        *)
(* bit-packed CMOS codec over a byte accessor, and the NVRAM session with  *)
(* its process-wide lock and checksum maintenance.                         *)
(*                                                                         *)
(* Go strings are modelled as sequences of byte values, a uint64 as a      *)
(* natural number below 2^31 (the range of the model checker's integers),  *)
(* an error as a string, the nil error as "nil".                           *)
(***************************************************************************)
EXTENDS Integers, Sequences, FiniteSets, TLC

\* ------------------------------------------------------------------------
\* Program constants
\* ------------------------------------------------------------------------
cmosSize == 256
cmosRTCAreaSize == 14

ErrNil == "nil"
ErrNVRAMAccessInUse == "nvram: NVRAM is busy."
ErrInvalidCMOSIndex == "nvram: Invalid CMOS index!"
ErrCMOSNotOpen == "nvram: CMOS Not Opened"
\* an error of the operating system on /dev/port or on a file
ErrIO == "errno"

CMOSEntryEnum == "e"
CMOSEntryHex == "h"
CMOSEntryString == "s"
CMOSEntryReserved == "r"

\* ------------------------------------------------------------------------
\* Byte arithmetic (Go's byte operators >>, <<, &, |, ^ on 8 bits)
\* ------------------------------------------------------------------------
Shr(n, k) == n \div (2 ^ k)
Shl8(n, k) == (n * (2 ^ k)) % 256
Bit(n, i) == (n \div (2 ^ i)) % 2
And8(a, b) ==
    LET f[i \in 0..8] == IF i = 8 THEN 0 ELSE Bit(a, i) * Bit(b, i) * (2 ^ i) + f[i + 1]
    IN  f[0]
Or8(a, b) == a + b - And8(a, b)
Not8(a) == 255 - a
\* byte(1<<size) - 1 for size < 8
LowMask(size) == (2 ^ size) - 1

Min(a, b) == IF a < b THEN a ELSE b

\* ------------------------------------------------------------------------
\* Validators
\* ------------------------------------------------------------------------
\* a variant without the guard of the RTC area
verifyCMOSByteIndex_NoRTCGuard(index) == index < cmosSize

verifyCMOSByteIndex(index) == (index >= cmosRTCAreaSize) /\ (index < cmosSize)

verifyCMOSEntry(e) ==
    IF (e.bit >= 8 * cmosSize) \/ ((e.bit + e.length) > 8 * cmosSize)
    THEN "out of range"
    ELSE IF ((e.bit % 8) > 0) /\ ((e.bit \div 8) # ((e.bit + e.length - 1) \div 8))
    THEN "unaligned spanning multiple bytes"
    ELSE IF e.config \notin {CMOSEntryString, CMOSEntryEnum, CMOSEntryHex, CMOSEntryReserved}
    THEN "invalid config type"
    ELSE ErrNil

\* a variant without the test for a Reserved entry
verifyCMOSOp_NoReservedCheck(e) ==
    IF e.bit < 8 * cmosRTCAreaSize
    THEN "overlaps RTC"
    ELSE IF e.length > 64 /\ e.config # CMOSEntryString
    THEN "too wide"
    ELSE verifyCMOSEntry(e)

verifyCMOSOp(e) ==
    IF e.config = CMOSEntryReserved
    THEN "is reserved"
    ELSE IF e.bit < 8 * cmosRTCAreaSize
    THEN "overlaps RTC"
    ELSE IF e.length > 64 /\ e.config # CMOSEntryString
    THEN "too wide"
    ELSE verifyCMOSEntry(e)

checkAreaOverLap(s0, l0, s1, l1) ==
    LET e0 == s0 + l0 - 1
        e1 == s1 + l1 - 1
    IN  (s1 <= e0) /\ (s0 <= e1)

IsOverlap(e, e1) == checkAreaOverLap(e.bit, e.length, e1.bit, e1.length)

\* [err, c]: c is the descriptor in bytes, meaningful when err = ErrNil
NewCMOSChecksum(start, end, index) ==
    LET none == [start |-> 0, end |-> 0, index |-> 0]
        s == start \div 8
        e == end \div 8
        i == index \div 8
    IN  IF start % 8 # 0 THEN [err |-> "Checksum area start not aligned", c |-> none]
        ELSE IF end % 8 # 7 THEN [err |-> "Checksum area end not aligned", c |-> none]
        ELSE IF index % 8 # 0 THEN [err |-> "Checksum location not aligned", c |-> none]
        ELSE IF end <= start THEN [err |-> "Checksum area invalid.", c |-> none]
        ELSE IF ~verifyCMOSByteIndex(s) \/ ~verifyCMOSByteIndex(e)
        THEN [err |-> "Checksum area out of range.", c |-> none]
        ELSE IF ~verifyCMOSByteIndex(i)
        THEN [err |-> "Checksum location out of range.", c |-> none]
        ELSE IF checkAreaOverLap(s, e - s + 1, i, i + 1)
        THEN [err |-> "Checksum overlaps summed area.", c |-> none]
        ELSE [err |-> ErrNil, c |-> [start |-> s, end |-> e, index |-> i]]

\* ------------------------------------------------------------------------
\* Layout model
\* ------------------------------------------------------------------------
\* Go maps are functions with a finite domain.
EmptyMap == << >>
MapPut(m, k, v) == [x \in (DOMAIN m) \cup {k} |-> IF x = k THEN v ELSE m[x]]

\* the nil *CMOSChecksum
NilChecksum == [start |-> 0, end |-> 0, index |-> 0]

NewLayout ==
    [enums |-> EmptyMap,
     entries |-> EmptyMap,
     entrieslist |-> << >>,
     cmosChecksum |-> NewCMOSChecksum(392, 1007, 1008).c]

\* The position (0-based) the loop of AddCMOSEntry leaves in pos: the index
\* of the first entry with a greater bit, or the last index when there is
\* none (pos = i is assigned before the comparison).
InsertPos(list, entry) ==
    LET greater == {i \in 1..Len(list) : entry.bit < list[i].bit}
    IN  IF Len(list) = 0 THEN 0
        ELSE IF greater = {} THEN Len(list) - 1
        ELSE (CHOOSE i \in greater : \A j \in greater : i <= j) - 1

\* append(nil); copy(list[pos+1:], list[pos:]); list[pos] = entry
InsertAt(list, pos, entry) ==
    SubSeq(list, 1, pos) \o <<entry>> \o SubSeq(list, pos + 1, Len(list))

\* [err, l]
AddCMOSEntry(l, entry) ==
    LET verr == verifyCMOSEntry(entry)
        list == l.entrieslist
        pos == InsertPos(list, entry)
    IN  IF verr # ErrNil THEN [err |-> verr, l |-> l]
        ELSE IF Len(list) > 0 /\ pos > 0 /\ IsOverlap(entry, list[pos])
        THEN [err |-> "overlaps", l |-> l]
        ELSE IF Len(list) > 0 /\ IsOverlap(entry, list[pos + 1])
        THEN [err |-> "overlaps", l |-> l]
        ELSE [err |-> ErrNil,
              l |-> [l EXCEPT !.entrieslist = InsertAt(list, pos, entry),
                              !.entries = MapPut(l.entries, entry.name, entry)]]

FindCMOSEntry(l, name) ==
    IF name \in DOMAIN l.entries
    THEN [ok |-> TRUE, entry |-> l.entries[name]]
    ELSE [ok |-> FALSE, entry |-> [bit |-> 0, length |-> 0, config |-> "", config_id |-> 0, name |-> ""]]

AddCMOSEnum(l, item) ==
    LET enum == IF item.id \in DOMAIN l.enums
                THEN l.enums[item.id]
                ELSE [itos |-> EmptyMap, stoi |-> EmptyMap]
        enum2 == [itos |-> MapPut(enum.itos, item.value, item.text),
                  stoi |-> MapPut(enum.stoi, item.text, item.value)]
    IN  [l EXCEPT !.enums = MapPut(l.enums, item.id, enum2)]

FindCMOSEnumText(l, id, value) ==
    IF id \notin DOMAIN l.enums THEN [ok |-> FALSE, text |-> << >>]
    ELSE IF value \in DOMAIN l.enums[id].itos
    THEN [ok |-> TRUE, text |-> l.enums[id].itos[value]]
    ELSE [ok |-> FALSE, text |-> << >>]

FindCMOSEnumValue(l, id, text) ==
    IF id \notin DOMAIN l.enums THEN [ok |-> FALSE, value |-> 0]
    ELSE IF text \in DOMAIN l.enums[id].stoi
    THEN [ok |-> TRUE, value |-> l.enums[id].stoi[text]]
    ELSE [ok |-> FALSE, value |-> 0]

\* ------------------------------------------------------------------------
\* Text layout loader.  A layout file is the sequence of its data lines,
\* each already split into its section and fields:
\*   [kind |-> "entry", e |-> entry], [kind |-> "enum", item |-> item],
\*   [kind |-> "checksum", start, end, index (bits)], [kind |-> "bad"].
\* A file is [exists, lines]; a file that does not exist cannot be opened.
\* ------------------------------------------------------------------------
RECURSIVE ReadLines(_, _, _)
ReadLines(lines, i, layout) ==
    IF i > Len(lines) THEN [layout |-> layout, err |-> ErrNil]
    ELSE LET ln == lines[i] IN
         IF ln.kind = "entry"
         THEN LET r == AddCMOSEntry(layout, ln.e)
              IN  IF r.err # ErrNil THEN [layout |-> layout, err |-> r.err]
                  ELSE ReadLines(lines, i + 1, r.l)
         ELSE IF ln.kind = "enum"
         THEN IF FindCMOSEnumText(layout, ln.item.id, ln.item.value).ok
              \* fmt.Errorf's result is dropped: the loader returns with err = nil
              THEN [layout |-> layout, err |-> ErrNil]
              ELSE ReadLines(lines, i + 1, AddCMOSEnum(layout, ln.item))
         ELSE IF ln.kind = "checksum"
         THEN LET r == NewCMOSChecksum(ln.start, ln.end, ln.index)
              IN  IF r.err # ErrNil
                  THEN [layout |-> [layout EXCEPT !.cmosChecksum = NilChecksum], err |-> r.err]
                  ELSE ReadLines(lines, i + 1, [layout EXCEPT !.cmosChecksum = r.c])
         ELSE [layout |-> layout, err |-> "Unexpected data"]

ReadLayoutFromTextFile(file) ==
    IF ~file.exists
    THEN [layout |-> NewLayout, err |-> ErrIO]
    ELSE ReadLines(file.lines, 1, NewLayout)

\* ------------------------------------------------------------------------
\* Binary layout loader.  An option table is [tag, size, headerLength, recs]:
\* recs maps the byte offset of each inner record, counted from the start of
\* the table, to the record: [tag |-> 201, size, e], [tag |-> 202, size,
\* item], [tag |-> 204, size, start, end, index] or [tag, size] of another
\* tag.  The decoder's state is [input, address, endAddress, layout, err,
\* status]; address and endAddress are offsets from the start of the table.
\* ------------------------------------------------------------------------
\* the part of ReadLayoutFromCMOSTable before its loop
ReadLayoutFromCMOSTableBegin(table) ==
    IF table.tag # 200
    THEN [kind |-> "bin", status |-> "done", input |-> table, address |-> 0, endAddress |-> 0,
          steps |-> 0, layoutNil |-> TRUE, layout |-> NewLayout,
          err |-> "Not a valid CMOS Option Table"]
    ELSE [kind |-> "bin", status |-> "running", input |-> table,
          address |-> table.headerLength,
          endAddress |-> table.headerLength + (table.size - table.headerLength),
          steps |-> 0, layoutNil |-> FALSE, layout |-> NewLayout, err |-> ErrNil]

\* one iteration of the loop of ReadLayoutFromCMOSTable from state st
ReadLayoutFromCMOSTableStep(st) ==
    LET lbrec == st.input.recs[st.address]
        next == [st EXCEPT !.address = st.address + lbrec.size, !.steps = st.steps + 1]
        return(layout, err) ==
            [st EXCEPT !.status = "done", !.layout = layout, !.err = err, !.steps = st.steps + 1]
    IN  IF st.address >= st.endAddress THEN return(st.layout, ErrNil)
        ELSE IF lbrec.tag = 201
        THEN LET r == AddCMOSEntry(st.layout, lbrec.e)
             IN  IF r.err # ErrNil THEN return(st.layout, r.err)
                 ELSE [next EXCEPT !.layout = r.l]
        ELSE IF lbrec.tag = 202
        THEN IF FindCMOSEnumText(st.layout, lbrec.item.id, lbrec.item.value).ok
             \* fmt.Errorf's result is dropped: the decoder returns with err = nil
             THEN return(st.layout, ErrNil)
             ELSE [next EXCEPT !.layout = AddCMOSEnum(st.layout, lbrec.item)]
        ELSE IF lbrec.tag = 204
        THEN LET r == NewCMOSChecksum(lbrec.start, lbrec.end, lbrec.index)
                 l == [st.layout EXCEPT !.cmosChecksum = r.c]
             IN  IF r.err # ErrNil THEN return(l, r.err)
                 ELSE [next EXCEPT !.layout = l]
        ELSE next

\* ------------------------------------------------------------------------
\* Coreboot table scan.  Physical memory is the set of the places that hold
\* the table signature: [addr, headerOk, tableOk, countOk, tableBytes,
\* forward].  headerOk, tableOk and countOk are what the header checksum,
\* the table checksum and the record count of the bytes found there come to;
\* forward is the address in the table's forwarding record, NoForward when
\* it has none.  A mapping is [baseAddr, len].
\* ------------------------------------------------------------------------
pagesize == 4096
NoForward == -1

\* [baseAddr, len]: the pages that mapPages(start, end) maps
mapPages(start, end) ==
    LET length == end - start
        numPages == (length + (start % pagesize) + pagesize - 1) \div pagesize
    IN  [baseAddr |-> start - (start % pagesize), len |-> numPages * pagesize]

\* [err, header]: the loop of openTable from index i over the mapping
\* [baseAddr, len], and openTable itself
RECURSIVE scanTable(_, _, _, _)
RECURSIVE openTable(_, _, _)
scanTable(memory, baseAddr, len, i) ==
    LET found == {c \in memory : /\ baseAddr + i <= c.addr
                                 /\ c.addr < baseAddr + len
                                 /\ (c.addr - baseAddr) % 16 = 0}
        c == CHOOSE x \in found : \A y \in found : x.addr <= y.addr
        next == (c.addr - baseAddr) + 16
        m == mapPages(c.addr, c.addr + c.tableBytes)
    IN  IF found = {} THEN [err |-> "Coreboot table not found.", header |-> NoForward]
        ELSE IF ~c.headerOk THEN scanTable(memory, baseAddr, len, next)
        ELSE IF ~c.tableOk THEN scanTable(memory, m.baseAddr, m.len, next)
        ELSE IF ~c.countOk THEN scanTable(memory, m.baseAddr, m.len, next)
        ELSE IF c.forward # NoForward THEN openTable(memory, c.forward, c.forward + pagesize)
        ELSE [err |-> ErrNil, header |-> c.addr]

openTable(memory, start, end) ==
    LET m == mapPages(start, end)
    IN  scanTable(memory, m.baseAddr, m.len, 0)

\* CoreBootTable.Open with /dev/mem open: the two windows in turn
CoreBootTableOpen(memory) ==
    LET r == openTable(memory, 0, 4095)
    IN  IF r.err # ErrNil THEN openTable(memory, 983040, 1048575) ELSE r

\* ------------------------------------------------------------------------
\* Byte accessor.  acc is the session's accessor: "nil", "hw" (CMOSHW) or
\* "mem" (CMOSMem); mem is the 256-byte store behind it.  bud is the number
\* of port accesses of the hardware accessor that still succeed before the
\* operating system returns an error (-1: no error is coming).
\* ------------------------------------------------------------------------
NoFault == -1

\* The 256 bytes of a store are held as the byte every offset had at the
\* start (fill) and the bytes that differ from it (set: offset -> byte).
Store(b) == [fill |-> b, set |-> << >>]
\* c.mem[off]
At(mem, off) == IF off \in DOMAIN mem.set THEN mem.set[off] ELSE mem.fill
\* c.mem[off] = b
Put(mem, off, b) ==
    IF b = mem.fill
    THEN [mem EXCEPT !.set = [x \in (DOMAIN mem.set) \ {off} |-> mem.set[x]]]
    ELSE [mem EXCEPT !.set = [x \in (DOMAIN mem.set) \cup {off} |-> IF x = off THEN b ELSE mem.set[x]]]

ReadByte(acc, mem, off, bud) ==
    IF acc = "nil" THEN [b |-> 0, err |-> ErrCMOSNotOpen, bud |-> bud]
    ELSE IF ~verifyCMOSByteIndex(off) THEN [b |-> 0, err |-> ErrInvalidCMOSIndex, bud |-> bud]
    ELSE IF acc = "hw" /\ bud = 0 THEN [b |-> 0, err |-> ErrIO, bud |-> bud]
    ELSE [b |-> At(mem, off), err |-> ErrNil,
          bud |-> IF acc = "hw" /\ bud > 0 THEN bud - 1 ELSE bud]

WriteByte(acc, mem, off, b, bud) ==
    IF acc = "nil" THEN [mem |-> mem, err |-> ErrCMOSNotOpen, bud |-> bud]
    ELSE IF ~verifyCMOSByteIndex(off) THEN [mem |-> mem, err |-> ErrInvalidCMOSIndex, bud |-> bud]
    ELSE IF acc = "hw" /\ bud = 0 THEN [mem |-> mem, err |-> ErrIO, bud |-> bud]
    ELSE [mem |-> Put(mem, off, b), err |-> ErrNil,
          bud |-> IF acc = "hw" /\ bud > 0 THEN bud - 1 ELSE bud]

\* ------------------------------------------------------------------------
\* Bit-packed codec
\* ------------------------------------------------------------------------
\* wvalue = (wvalue >> (src_bit & 0x7)) & (byte(1<<src_size) - 1)
SourceBits(wvalue, src_bit, src_size) == And8(Shr(wvalue, src_bit % 8), LowMask(src_size))

\* a variant that stores the shifted value without merging it into the byte
MergeByte_NoMask(n, wvalue, src_size, dst_bit) == Shl8(wvalue, dst_bit % 8)

\* mask := (byte(1<<src_size) - 1) << (dst_bit & 0x07)
\* n = (n & ^mask) | ((wvalue << (dst_bit & 0x07)) & mask)
MergeByte(n, wvalue, src_size, dst_bit) ==
    LET mask == Shl8(LowMask(src_size), dst_bit % 8)
    IN  Or8(And8(n, Not8(mask)), And8(Shl8(wvalue, dst_bit % 8), mask))

\* The loop of WriteEntry; v is 1-based, so v[src_bit>>3] is v[(src_bit \div 8) + 1].
RECURSIVE WriteEntryLoop(_, _, _, _, _, _, _)
WriteEntryLoop(acc, mem, v, src_bit, src_bit_remaining, dst_bit, bud) ==
    IF src_bit_remaining = 0 THEN [mem |-> mem, err |-> ErrNil, bud |-> bud]
    ELSE LET wvalue == v[(src_bit \div 8) + 1] IN
         IF 8 > src_bit_remaining
         THEN LET src_size == src_bit_remaining
                  pvalue == SourceBits(wvalue, src_bit, src_size)
                  r == ReadByte(acc, mem, dst_bit \div 8, bud)
                  n == MergeByte(r.b, pvalue, src_size, dst_bit)
              IN  IF r.err # ErrNil THEN [mem |-> mem, err |-> r.err, bud |-> r.bud]
                  ELSE WriteByte(acc, mem, dst_bit \div 8, n, r.bud)
         ELSE LET w == WriteByte(acc, mem, dst_bit \div 8, wvalue, bud)
              IN  IF w.err # ErrNil THEN w
                  ELSE WriteEntryLoop(acc, w.mem, v, src_bit + 8, src_bit_remaining - 8,
                                      dst_bit + 8, w.bud)

\* [mem, err, bud]
WriteEntry(acc, mem, e, v, bud) ==
    LET verr == verifyCMOSOp(e)
    IN  IF verr # ErrNil THEN [mem |-> mem, err |-> verr, bud |-> bud]
        ELSE WriteEntryLoop(acc, mem, v, 0, Min(e.length, Len(v) * 8), e.bit, bud)

Zeros(n) == [i \in 1..n |-> 0]

\* a variant that masks the byte without shifting it down
ExtractBits_NoShift(n, src_bit, src_size) == And8(n, LowMask(src_size))

\* n = (n >> (src_bit & 0x7)) & (byte(1<<src_size) - 1)
ExtractBits(n, src_bit, src_size) == And8(Shr(n, src_bit % 8), LowMask(src_size))

RECURSIVE ReadEntryLoop(_, _, _, _, _, _, _)
ReadEntryLoop(acc, mem, v, src_bit, src_bit_remaining, dst_bit, bud) ==
    IF src_bit_remaining = 0 THEN [v |-> v, err |-> ErrNil, bud |-> bud]
    ELSE LET r == ReadByte(acc, mem, src_bit \div 8, bud)
             src_size == IF 8 > src_bit_remaining THEN src_bit_remaining ELSE 8
             n == IF 8 > src_bit_remaining
                  THEN ExtractBits(r.b, src_bit, src_size)
                  ELSE r.b
         IN  IF r.err # ErrNil THEN [v |-> v, err |-> r.err, bud |-> r.bud]
             ELSE ReadEntryLoop(acc, mem, [v EXCEPT ![(dst_bit \div 8) + 1] = n],
                                src_bit + src_size, src_bit_remaining - src_size,
                                dst_bit + src_size, r.bud)

\* [v, err, bud]; v is nil (empty) when verifyCMOSOp rejects the entry
ReadEntry(acc, mem, e, bud) ==
    LET verr == verifyCMOSOp(e)
        buf == IF e.config = CMOSEntryString THEN Zeros((e.length + 7) \div 8) ELSE Zeros(8)
    IN  IF verr # ErrNil THEN [v |-> << >>, err |-> verr, bud |-> bud]
        ELSE ReadEntryLoop(acc, mem, buf, e.bit, e.length, 0, bud)

\* [sum, err, bud]
ReadChecksum(acc, mem, checksum, bud) ==
    LET r0 == ReadByte(acc, mem, checksum.index, bud)
        r1 == ReadByte(acc, mem, checksum.index + 1, r0.bud)
    IN  IF r0.err # ErrNil THEN [sum |-> 0, err |-> r0.err, bud |-> r0.bud]
        ELSE IF r1.err # ErrNil THEN [sum |-> 0, err |-> r1.err, bud |-> r1.bud]
        ELSE [sum |-> (r0.b * 256 + r1.b) % 65536, err |-> ErrNil, bud |-> r1.bud]

\* [mem, err, bud]
WriteChecksum(acc, mem, checksum, sum, bud) ==
    LET w0 == WriteByte(acc, mem, checksum.index, Shr(sum, 8) % 256, bud)
    IN  IF w0.err # ErrNil THEN w0
        ELSE WriteByte(acc, w0.mem, checksum.index + 1, sum % 256, w0.bud)

\* The loop of ComputeChecksum over i = lo..hi, from the loop state st =
\* [sum, err, bud]; the range is walked in order, split in halves to keep
\* the evaluation shallow.
RECURSIVE ComputeLoop(_, _, _, _, _)
ComputeLoop(acc, mem, lo, hi, st) ==
    IF st.err # ErrNil \/ lo > hi THEN st
    ELSE IF lo = hi
    THEN LET r == ReadByte(acc, mem, lo, st.bud)
         IN  IF r.err # ErrNil THEN [sum |-> st.sum, err |-> r.err, bud |-> r.bud]
             ELSE [sum |-> (st.sum + r.b) % 65536, err |-> ErrNil, bud |-> r.bud]
    ELSE LET mid == (lo + hi) \div 2
         IN  ComputeLoop(acc, mem, mid + 1, hi, ComputeLoop(acc, mem, lo, mid, st))

\* [sum, err, bud]
ComputeChecksum(acc, mem, checksum, bud) ==
    ComputeLoop(acc, mem, checksum.start, checksum.end, [sum |-> 0, err |-> ErrNil, bud |-> bud])

\* The loop of WriteAllMemory over i = lo..hi, from st = [mem, err, bud].
RECURSIVE WriteAllLoop(_, _, _, _, _)
WriteAllLoop(acc, d, lo, hi, st) ==
    IF st.err # ErrNil \/ lo > hi THEN st
    ELSE IF lo = hi THEN WriteByte(acc, st.mem, lo, d[lo + 1], st.bud)
    ELSE LET mid == (lo + hi) \div 2
         IN  WriteAllLoop(acc, d, mid + 1, hi, WriteAllLoop(acc, d, lo, mid, st))

\* [mem, err, bud]
WriteAllMemory(acc, mem, d, bud) ==
    IF Len(d) < cmosSize THEN [mem |-> mem, err |-> "nvram: Not enough data.", bud |-> bud]
    ELSE WriteAllLoop(acc, d, cmosRTCAreaSize, cmosSize - 1,
                      [mem |-> mem, err |-> ErrNil, bud |-> bud])

\* ------------------------------------------------------------------------
\* Values of parameters (Go's interface{}): a string, a uint64, or a value
\* of another type.
\* ------------------------------------------------------------------------
Str(s) == [type |-> "string", n |-> 0, s |-> s]
U64(n) == [type |-> "uint64", n |-> n, s |-> << >>]
Other == [type |-> "int", n |-> 0, s |-> << >>]
NoValue == [type |-> "none", n |-> 0, s |-> << >>]

\* binary.LittleEndian.PutUint64 into a buffer of k bytes
RECURSIVE PutUint(_, _)
PutUint(n, k) == IF k = 0 THEN << >> ELSE <<n % 256>> \o PutUint(n \div 256, k - 1)
PutUint64(n) == PutUint(n, 8)

\* binary.LittleEndian.Uint64; a value of 2^31 or more is outside the
\* model's integers and is reported as -1.
Uint64(v) ==
    IF v[4] >= 128 \/ \E i \in 5..8 : v[i] # 0 THEN -1
    ELSE v[1] + 256 * v[2] + 65536 * v[3] + 16777216 * v[4]

\* n >= (uint64(1) << length), for a model value n < 2^31
GeShift(n, length) == IF length >= 31 THEN FALSE ELSE n >= 2 ^ length

\* fmt.Sprintf("%X", n) as bytes
HexDigit(d) == IF d < 10 THEN 48 + d ELSE 55 + d
RECURSIVE HexText(_)
HexText(n) == IF n < 16 THEN <<HexDigit(n)>> ELSE HexText(n \div 16) \o <<HexDigit(n % 16)>>
\* fmt.Sprintf("0x%X # Bad Value", n)
BadValueText(n) == <<48, 120>> \o HexText(n) \o <<32, 35, 32, 66, 97, 100, 32, 86, 97, 108, 117, 101>>

\* copy(v[:], []byte(s)) into a zeroed buffer of k bytes
CopyString(s, k) == [i \in 1..k |-> IF i <= Len(s) THEN s[i] ELSE 0]

\* WriteCMOSParameter on layout l, accessor acc over store mem.
\* [mem, err, bud, wrote]: wrote is TRUE when nv.modified is set.
WriteCMOSParameter(l, acc, mem, name, value, bud) ==
    LET f == FindCMOSEntry(l, name)
        e == f.entry
        s == IF value.type = "string" THEN value.s ELSE << >>
        n == IF value.type = "uint64" THEN value.n ELSE 0
        ev == FindCMOSEnumValue(l, e.config_id, s)
        stop(msg) == [mem |-> mem, err |-> msg, bud |-> bud, wrote |-> FALSE]
        go(v) == LET r == WriteEntry(acc, mem, e, v, bud)
                 IN  [mem |-> r.mem, err |-> r.err, bud |-> r.bud, wrote |-> (r.err = ErrNil)]
    IN  IF ~f.ok \/ name = "check_sum" THEN stop("not found")
        ELSE IF e.config = CMOSEntryString
        THEN IF e.length < Len(s) * 8 THEN stop("only length-bits wide")
             ELSE go(CopyString(s, (e.length + 7) \div 8))
        ELSE IF e.config = CMOSEntryEnum
        THEN IF ~ev.ok THEN stop("Bad value for parameter")
             ELSE IF e.length < 64 /\ GeShift(ev.value, e.length)
             THEN stop("Enum value is too wide")
             ELSE go(PutUint64(ev.value))
        ELSE IF e.config = CMOSEntryHex
        THEN IF e.length < 64 /\ GeShift(n, e.length) THEN stop("only length-bits wide")
             ELSE go(PutUint64(n))
        ELSE go(<< >>)

\* [value, err, bud]
ReadCMOSParameter(l, acc, mem, name, bud) ==
    LET f == FindCMOSEntry(l, name)
        e == f.entry
        r == ReadEntry(acc, mem, e, bud)
        n == Uint64(r.v)
        t == FindCMOSEnumText(l, e.config_id, n)
    IN  IF ~f.ok \/ name = "check_sum"
        THEN [value |-> NoValue, err |-> "not found", bud |-> bud]
        ELSE IF r.err # ErrNil THEN [value |-> NoValue, err |-> r.err, bud |-> r.bud]
        ELSE IF e.config = CMOSEntryString
        THEN [value |-> Str(r.v), err |-> ErrNil, bud |-> r.bud]
        ELSE IF e.config = CMOSEntryEnum
        THEN [value |-> IF t.ok THEN Str(t.text) ELSE Str(BadValueText(n)),
              err |-> ErrNil, bud |-> r.bud]
        ELSE IF e.config = CMOSEntryHex
        THEN [value |-> U64(n), err |-> ErrNil, bud |-> r.bud]
        ELSE [value |-> NoValue, err |-> "invalid config type", bud |-> r.bud]

\* [err, bud]
ValidateChecksum(acc, mem, checksum, bud) ==
    LET c == ComputeChecksum(acc, mem, checksum, bud)
        r == ReadChecksum(acc, mem, checksum, c.bud)
    IN  IF c.err # ErrNil THEN [err |-> c.err, bud |-> c.bud]
        ELSE IF r.err # ErrNil THEN [err |-> r.err, bud |-> r.bud]
        ELSE IF c.sum # r.sum THEN [err |-> "Warning: coreboot CMOS checksum is bad.", bud |-> r.bud]
        ELSE [err |-> ErrNil, bud |-> r.bud]

\* The loop of ReadAllMemory over i = lo..hi, from st = [d, err, bud].
RECURSIVE ReadAllLoop(_, _, _, _, _)
ReadAllLoop(acc, mem, lo, hi, st) ==
    IF st.err # ErrNil \/ lo > hi THEN st
    ELSE IF lo = hi
    THEN LET r == ReadByte(acc, mem, lo, st.bud)
         IN  IF r.err # ErrNil THEN [d |-> st.d, err |-> r.err, bud |-> r.bud]
             ELSE [d |-> [st.d EXCEPT ![lo + 1] = r.b], err |-> ErrNil, bud |-> r.bud]
    ELSE LET mid == (lo + hi) \div 2
         IN  ReadAllLoop(acc, mem, mid + 1, hi, ReadAllLoop(acc, mem, lo, mid, st))

\* [d, err, bud]
ReadAllMemory(acc, mem, bud) ==
    ReadAllLoop(acc, mem, cmosRTCAreaSize, cmosSize - 1,
                [d |-> Zeros(cmosSize), err |-> ErrNil, bud |-> bud])

\* ------------------------------------------------------------------------
\* Inputs
\* ------------------------------------------------------------------------
Entry(bit, length, config, config_id, name) ==
    [bit |-> bit, length |-> length, config |-> config, config_id |-> config_id, name |-> name]
Item(id, value, text) == [id |-> id, value |-> value, text |-> text]
EntryLine(e) == [kind |-> "entry", e |-> e]
EnumLine(i) == [kind |-> "enum", item |-> i]
ChecksumLine(start, end, index) ==
    [kind |-> "checksum", start |-> start, end |-> end, index |-> index]

\* texts, as bytes
TxtOff == <<111, 102, 102>>
TxtOn == <<111, 110>>
TxtAuto == <<97, 117, 116, 111>>
TxtBogus == <<98, 111, 103, 117, 115>>
TxtAbc == <<97, 98, 99>>
TxtAbcd == <<97, 98, 99, 100>>

\* a layout with the default checksum descriptor (bytes 49..125, stored at 126)
FileMain ==
    << EntryLine(Entry(104, 8, CMOSEntryHex, 0, "rtc")),
       EntryLine(Entry(115, 1, CMOSEntryHex, 0, "flag")),
       EntryLine(Entry(120, 8, CMOSEntryHex, 0, "speed")),
       EntryLine(Entry(128, 32, CMOSEntryHex, 0, "val")),
       EntryLine(Entry(400, 12, CMOSEntryHex, 0, "boot")),
       EntryLine(Entry(416, 1, CMOSEntryEnum, 7, "mode")),
       EntryLine(Entry(424, 24, CMOSEntryString, 0, "tag")),
       EntryLine(Entry(448, 8, CMOSEntryReserved, 0, "rsvd")),
       EntryLine(Entry(512, 64, CMOSEntryHex, 0, "wide")),
       EnumLine(Item(7, 0, TxtOff)),
       EnumLine(Item(7, 1, TxtOn)),
       EnumLine(Item(7, 2, TxtAuto)) >>

\* a layout whose checksum covers bytes 14..15 and is stored at 16
FileSmall ==
    << EntryLine(Entry(115, 1, CMOSEntryHex, 0, "flag")),
       EntryLine(Entry(120, 8, CMOSEntryHex, 0, "speed")),
       ChecksumLine(112, 127, 128) >>

\* a layout whose checksum covers bytes 14..15 and is stored at 255
FileEdge ==
    << EntryLine(Entry(115, 1, CMOSEntryHex, 0, "flag")),
       EntryLine(Entry(120, 8, CMOSEntryHex, 0, "speed")),
       ChecksumLine(112, 127, 2040) >>

\* a layout the loader rejects: the second entry overlaps the first
FileOverlap ==
    << EntryLine(Entry(200, 8, CMOSEntryHex, 0, "a")),
       EntryLine(Entry(203, 4, CMOSEntryHex, 0, "b")) >>

File(lines) == [exists |-> TRUE, lines |-> lines]
FileMissing == [exists |-> FALSE, lines |-> << >>]
LayoutFiles == {File(FileMain), File(FileSmall), File(FileEdge), File(FileOverlap), FileMissing}

\* the largest number of port accesses after which the hardware may fail
MaxFault == 4
FaultBudgets == {NoFault} \cup (0..MaxFault)

\* what Open's second argument can name: a CMOS file that maps, a file that
\* cannot be opened, the hardware, the hardware without I/O privilege
AccessorSources ==
    {[kind |-> "mem", ok |-> TRUE, bud |-> NoFault],
     [kind |-> "mem", ok |-> FALSE, bud |-> NoFault],
     [kind |-> "hw", ok |-> FALSE, bud |-> NoFault]}
    \cup {[kind |-> "hw", ok |-> TRUE, bud |-> b] : b \in FaultBudgets}

WriteInputs ==
    { <<"flag", U64(1)>>, <<"flag", U64(0)>>, <<"flag", U64(2)>>,
      <<"speed", U64(165)>>, <<"val", U64(2125315823)>>,
      <<"boot", U64(2748)>>, <<"wide", U64(2125315823)>>,
      <<"mode", Str(TxtOn)>>, <<"mode", Str(TxtAuto)>>, <<"mode", Str(TxtBogus)>>,
      <<"tag", Str(TxtAbc)>>, <<"tag", Str(TxtAbcd)>>,
      <<"rsvd", U64(1)>>, <<"rtc", U64(1)>>,
      <<"check_sum", U64(1)>>, <<"nosuch", U64(1)>>,
      <<"flag", Str(TxtOn)>>, <<"mode", U64(1)>>, <<"tag", Other>> }

ReadNames == {"flag", "speed", "val", "boot", "wide", "mode", "tag", "rsvd", "rtc",
              "check_sum", "nosuch"}

ByteOffsets == {0, 13, 14, 255, 256}
ByteValues == {90}
Fill(b, n) == [i \in 1..n |-> b]
RestoreBuffers == {Fill(60, cmosSize), Fill(60, cmosSize - 1)}
\* every byte of a store at the start: two complementary bit patterns
InitFills == {15, 240}

\* the number of operations a behaviour performs
MaxOps == 3

\* the iterations the decoder may perform on one table
MaxSteps == 8

\* ------------------------------------------------------------------------
\* State
\* ------------------------------------------------------------------------
VARIABLES
    lockstate,  \* the process-wide lock flag
    nv,         \* the NVRAM objects: accessor, Layout, checksum, modified
    cmos,       \* the bytes behind the hardware ("hw") and the CMOS file ("mem")
    hwbud,      \* port accesses that still succeed on /dev/port (NoFault: all)
    last,       \* the last call: operation, object, arguments, results
    lay,        \* a Layout built by calls of AddCMOSEntry and AddCMOSEnum
    load,       \* a layout loader at work: its input, position and result
    ops         \* operations performed

vars == <<lockstate, nv, cmos, hwbud, last, lay, load, ops>>

Call(op, s, err, name, arg, val) ==
    [op |-> op, s |-> s, err |-> err, name |-> name, arg |-> arg, val |-> val]

\* no loader has been called
LoadIdle ==
    [kind |-> "none", status |-> "idle", input |-> << >>, address |-> 0, endAddress |-> 0,
     steps |-> 0, layoutNil |-> TRUE, layout |-> NewLayout, err |-> ErrNil]

NewNVRAM ==
    [accessor |-> "nil", layoutNil |-> TRUE, layout |-> NewLayout,
     checksum |-> NilChecksum, modified |-> FALSE]

Init ==
    /\ lockstate = 0
    /\ nv = [s \in {"nv", "nv2"} |-> NewNVRAM]
    /\ \E b \in InitFills : cmos = [k \in {"hw", "mem"} |-> Store(b)]
    /\ hwbud = NoFault
    /\ last = Call("none", "nv", ErrNil, "", NoValue, NoValue)
    /\ lay = NewLayout
    /\ load = LoadIdle
    /\ ops = 0

StoreOf(acc) == IF acc = "nil" THEN "mem" ELSE acc
Mem(s) == cmos[StoreOf(nv[s].accessor)]

\* NVRAM.Open(layoutFileName, cmosMemFileName)
Open(s, file, src) ==
    /\ ops < MaxOps
    /\ ops' = ops + 1
    /\ UNCHANGED <<lay, load>>
    /\ IF lockstate # 0
       THEN /\ last' = Call("Open", s, ErrNVRAMAccessInUse, "", NoValue, NoValue)
            /\ UNCHANGED <<lockstate, nv, cmos, hwbud>>
       ELSE LET r == ReadLayoutFromTextFile(file)
                loaded == [nv[s] EXCEPT !.layoutNil = FALSE, !.layout = r.layout]
            IN  /\ lockstate' = 1
                /\ UNCHANGED cmos
                /\ IF r.err # ErrNil
                   THEN /\ nv' = [nv EXCEPT ![s] = loaded]
                        /\ last' = Call("Open", s, r.err, "", NoValue, NoValue)
                        /\ UNCHANGED hwbud
                   ELSE IF ~src.ok
                   THEN /\ nv' = [nv EXCEPT ![s] = [loaded EXCEPT !.accessor = "nil"]]
                        /\ last' = Call("Open", s, ErrIO, "", NoValue, NoValue)
                        /\ UNCHANGED hwbud
                   ELSE /\ nv' = [nv EXCEPT ![s] = [loaded EXCEPT !.accessor = src.kind,
                                                          !.checksum = r.layout.cmosChecksum]]
                        /\ hwbud' = IF src.kind = "hw" THEN src.bud ELSE hwbud
                        /\ last' = Call("Open", s, ErrNil, "", NoValue, NoValue)

\* a variant that returns early, before unlocking, when the checksum fails
DeferredUnlock_SkippedOnFailure(lock, checksumFailed) == IF checksumFailed THEN lock ELSE 0

\* defer atomic.StoreUint32(&lockstate, 0): the flag when Close returns,
\* whether or not the checksum was computed and written
DeferredUnlock(lock, checksumFailed) == 0

\* CMOS.Close(): the accessor when Close returns
CMOSClose(accessor) == "nil"

\* NVRAM.Close(); closeErr: the hardware accessor's Close returns an errno
Close(s, closeErr) ==
    LET me == nv[s]
        c == ComputeChecksum(me.accessor, Mem(s), me.checksum, hwbud)
        w == WriteChecksum(me.accessor, Mem(s), me.checksum, c.sum, c.bud)
        computed == me.modified /\ c.err = ErrNil
        written == computed /\ w.err = ErrNil
    IN  /\ ops < MaxOps
        /\ ops' = ops + 1
        /\ UNCHANGED <<lay, load>>
        /\ closeErr => me.accessor = "hw"
        /\ lockstate' = DeferredUnlock(lockstate, me.modified /\ ~written)
        /\ cmos' = IF computed THEN [cmos EXCEPT ![StoreOf(me.accessor)] = w.mem] ELSE cmos
        /\ hwbud' = IF computed THEN w.bud ELSE IF me.modified THEN c.bud ELSE hwbud
        /\ nv' = [nv EXCEPT ![s] = [me EXCEPT !.accessor = CMOSClose(me.accessor),
                                            !.modified = IF written THEN FALSE ELSE me.modified]]
        /\ last' = Call("Close", s, IF closeErr THEN ErrIO ELSE ErrNil, "", NoValue, NoValue)

\* NVRAM.WriteCMOSParameter(name, value); the Layout must not be nil
WriteParameter(s, name, value) ==
    LET me == nv[s]
        r == WriteCMOSParameter(me.layout, me.accessor, Mem(s), name, value, hwbud)
    IN  /\ ops < MaxOps
        /\ ops' = ops + 1
        /\ UNCHANGED <<lay, load>>
        /\ ~me.layoutNil
        /\ cmos' = [cmos EXCEPT ![StoreOf(me.accessor)] = r.mem]
        /\ hwbud' = r.bud
        /\ nv' = [nv EXCEPT ![s].modified = IF r.wrote THEN TRUE ELSE me.modified]
        /\ last' = Call("Write", s, r.err, name, value, NoValue)
        /\ UNCHANGED lockstate

\* NVRAM.ReadCMOSParameter(name); the Layout must not be nil
ReadParameter(s, name) ==
    LET me == nv[s]
        r == ReadCMOSParameter(me.layout, me.accessor, Mem(s), name, hwbud)
    IN  /\ ops < MaxOps
        /\ ops' = ops + 1
        /\ UNCHANGED <<lay, load>>
        /\ ~me.layoutNil
        /\ hwbud' = r.bud
        /\ last' = Call("Read", s, r.err, name, NoValue, r.value)
        /\ UNCHANGED <<lockstate, nv, cmos>>

\* NVRAM.ValidateChecksum()
Validate(s) ==
    LET me == nv[s]
        r == ValidateChecksum(me.accessor, Mem(s), me.checksum, hwbud)
    IN  /\ ops < MaxOps
        /\ ops' = ops + 1
        /\ UNCHANGED <<lay, load>>
        /\ hwbud' = r.bud
        /\ last' = Call("Validate", s, r.err, "", NoValue, NoValue)
        /\ UNCHANGED <<lockstate, nv, cmos>>

\* CMOS.ReadByte(off), called on the session
DirectRead(s, off) ==
    LET r == ReadByte(nv[s].accessor, Mem(s), off, hwbud)
    IN  /\ ops < MaxOps
        /\ ops' = ops + 1
        /\ UNCHANGED <<lay, load>>
        /\ hwbud' = r.bud
        /\ last' = Call("ReadByte", s, r.err, "", U64(off), U64(r.b))
        /\ UNCHANGED <<lockstate, nv, cmos>>

\* CMOS.WriteByte(off, b), called on the session
DirectWrite(s, off, b) ==
    LET r == WriteByte(nv[s].accessor, Mem(s), off, b, hwbud)
    IN  /\ ops < MaxOps
        /\ ops' = ops + 1
        /\ UNCHANGED <<lay, load>>
        /\ cmos' = [cmos EXCEPT ![StoreOf(nv[s].accessor)] = r.mem]
        /\ hwbud' = r.bud
        /\ last' = Call("WriteByte", s, r.err, "", U64(off), U64(b))
        /\ UNCHANGED <<lockstate, nv>>

\* CMOS.WriteAllMemory(d), called on the session
Restore(s, d) ==
    LET r == WriteAllMemory(nv[s].accessor, Mem(s), d, hwbud)
    IN  /\ ops < MaxOps
        /\ ops' = ops + 1
        /\ UNCHANGED <<lay, load>>
        /\ cmos' = [cmos EXCEPT ![StoreOf(nv[s].accessor)] = r.mem]
        /\ hwbud' = r.bud
        /\ last' = Call("WriteAll", s, r.err, "", Str(d), NoValue)
        /\ UNCHANGED <<lockstate, nv>>

\* CMOS.ReadAllMemory(), called on the session
Dump(s) ==
    LET r == ReadAllMemory(nv[s].accessor, Mem(s), hwbud)
    IN  /\ ops < MaxOps
        /\ ops' = ops + 1
        /\ UNCHANGED <<lay, load>>
        /\ hwbud' = r.bud
        /\ last' = Call("ReadAll", s, r.err, "", NoValue, Str(r.d))
        /\ UNCHANGED <<lockstate, nv, cmos>>

\* CMOS.WriteEntry(e, v), called on the session with an entry of its Layout
WriteEntryDirect(s, name, v) ==
    LET me == nv[s]
        f == FindCMOSEntry(me.layout, name)
        r == WriteEntry(me.accessor, Mem(s), f.entry, v, hwbud)
    IN  /\ ops < MaxOps
        /\ ops' = ops + 1
        /\ UNCHANGED <<lay, load>>
        /\ ~me.layoutNil
        /\ f.ok
        /\ cmos' = [cmos EXCEPT ![StoreOf(me.accessor)] = r.mem]
        /\ hwbud' = r.bud
        /\ last' = Call("WriteEntry", s, r.err, name, Str(v), NoValue)
        /\ UNCHANGED <<lockstate, nv>>

\* Layout.AddCMOSEntry(entry) on the Layout lay
AddEntry(entry) ==
    LET r == AddCMOSEntry(lay, entry)
    IN  /\ ops < MaxOps
        /\ ops' = ops + 1
        /\ lay' = r.l
        /\ last' = Call("AddCMOSEntry", "nv", r.err, entry.name, NoValue, NoValue)
        /\ UNCHANGED <<lockstate, nv, cmos, hwbud, load>>

\* Layout.AddCMOSEnum(item) on the Layout lay
AddEnum(item) ==
    /\ ops < MaxOps
    /\ ops' = ops + 1
    /\ lay' = AddCMOSEnum(lay, item)
    /\ last' = Call("AddCMOSEnum", "nv", ErrNil, "", U64(item.value), Str(item.text))
    /\ UNCHANGED <<lockstate, nv, cmos, hwbud, load>>

\* the three arguments of NewCMOSChecksum, in bits
Bits3(start, end, index) == [type |-> "bits", n |-> 0, s |-> <<start, end, index>>]

\* layout.cmosChecksum, err = NewCMOSChecksum(start, end, index) on the
\* Layout lay; on an error the descriptor returned is nil
NewChecksum(start, end, index) ==
    LET r == NewCMOSChecksum(start, end, index)
    IN  /\ ops < MaxOps
        /\ ops' = ops + 1
        /\ lay' = [lay EXCEPT !.cmosChecksum = r.c]
        /\ last' = Call("NewCMOSChecksum", "nv", r.err, "", Bits3(start, end, index), NoValue)
        /\ UNCHANGED <<lockstate, nv, cmos, hwbud, load>>

\* ReadLayoutFromTextFile(file), called on its own
LoadText(file) ==
    LET r == ReadLayoutFromTextFile(file)
    IN  /\ ops < MaxOps
        /\ ops' = ops + 1
        /\ load.status # "running"
        /\ load' = [kind |-> "text", status |-> "done", input |-> file, address |-> 0,
                    endAddress |-> 0, steps |-> 0, layoutNil |-> FALSE, layout |-> r.layout,
                    err |-> r.err]
        /\ UNCHANGED <<lockstate, nv, cmos, hwbud, last, lay>>

\* ReadLayoutFromCMOSTable(table) is called and reaches its loop
DecodeStart(table) ==
    /\ ops < MaxOps
    /\ ops' = ops + 1
    /\ load.status # "running"
    /\ load' = ReadLayoutFromCMOSTableBegin(table)
    /\ UNCHANGED <<lockstate, nv, cmos, hwbud, last, lay>>

\* the loop of ReadLayoutFromCMOSTable performs one iteration
DecodeStep ==
    /\ load.kind = "bin"
    /\ load.status = "running"
    /\ load.steps < MaxSteps
    /\ load.address >= load.endAddress \/ load.address \in DOMAIN load.input.recs
    /\ load' = ReadLayoutFromCMOSTableStep(load)
    /\ UNCHANGED <<lockstate, nv, cmos, hwbud, last, lay, ops>>

\* CoreBootTable.Open() over the physical memory given
ScanCoreboot(memory) ==
    LET r == CoreBootTableOpen(memory)
    IN  /\ ops < MaxOps
        /\ ops' = ops + 1
        /\ last' = Call("CoreBootTableOpen", "nv", r.err, "",
                        [type |-> "memory", n |-> 0, s |-> << >>, tables |-> memory],
                        IF r.err = ErrNil THEN U64(r.header) ELSE NoValue)
        /\ UNCHANGED <<lockstate, nv, cmos, hwbud, lay, load>>

\* ------------------------------------------------------------------------
\* Specifications
\* ------------------------------------------------------------------------
\* one caller, one NVRAM object, every operation of the session
Next ==
    \/ \E file \in LayoutFiles, src \in AccessorSources : Open("nv", file, src)
    \/ \E closeErr \in BOOLEAN : Close("nv", closeErr)
    \/ \E in \in WriteInputs : WriteParameter("nv", in[1], in[2])
    \/ \E name \in ReadNames : ReadParameter("nv", name)
    \/ Validate("nv")
    \/ \E off \in ByteOffsets : DirectRead("nv", off)
    \/ \E off \in ByteOffsets, b \in ByteValues : DirectWrite("nv", off, b)
    \/ \E d \in RestoreBuffers : Restore("nv", d)
    \/ Dump("nv")

Spec == Init /\ [][Next]_vars

\* two NVRAM objects of one process, opened and closed in any order
Objects == {"nv", "nv2"}
LockFiles == {File(FileSmall), File(FileEdge), FileMissing}
\* the hardware with budget 2 fails on the first access after one
\* read-modify-write of a byte
LockSources ==
    {[kind |-> "mem", ok |-> TRUE, bud |-> NoFault],
     [kind |-> "mem", ok |-> FALSE, bud |-> NoFault],
     [kind |-> "hw", ok |-> TRUE, bud |-> NoFault],
     [kind |-> "hw", ok |-> TRUE, bud |-> 2]}

NextLock ==
    \/ \E s \in Objects, file \in LockFiles, src \in LockSources : Open(s, file, src)
    \/ \E s \in Objects, closeErr \in BOOLEAN : Close(s, closeErr)
    \/ \E s \in Objects : WriteParameter(s, "flag", U64(1))
    \/ \E s \in Objects : Validate(s)

SpecLock == Init /\ [][NextLock]_vars

\* the codec: parameter and bit-range writes and reads through one session
CodecFiles == {File(FileMain), File(FileSmall)}
CodecBuffers == {<< >>, <<255>>, <<165, 90>>, Fill(255, 8)}
CodecSources ==
    {[kind |-> "mem", ok |-> TRUE, bud |-> NoFault],
     [kind |-> "hw", ok |-> TRUE, bud |-> NoFault],
     [kind |-> "hw", ok |-> TRUE, bud |-> MaxFault]}
CodecNames == {"flag", "speed", "val", "boot", "wide", "mode", "tag", "rsvd", "rtc"}

NextCodec ==
    \/ \E file \in CodecFiles, src \in CodecSources : Open("nv", file, src)
    \/ \E in \in WriteInputs : WriteParameter("nv", in[1], in[2])
    \/ \E name \in CodecNames, v \in CodecBuffers : WriteEntryDirect("nv", name, v)
    \/ \E name \in CodecNames : ReadParameter("nv", name)

SpecCodec == Init /\ [][NextCodec]_vars

\* the byte level: direct byte reads and writes, whole-region restore,
\* parameter writes and the checksum write of Close through one session
ByteFiles == {File(FileMain), File(FileEdge)}
ByteSources ==
    {[kind |-> "mem", ok |-> TRUE, bud |-> NoFault],
     [kind |-> "hw", ok |-> TRUE, bud |-> NoFault]}
ByteWrites == {<<"rtc", U64(1)>>, <<"flag", U64(1)>>, <<"flag", U64(0)>>, <<"val", U64(2125315823)>>}

NextBytes ==
    \/ \E file \in ByteFiles, src \in ByteSources : Open("nv", file, src)
    \/ Close("nv", FALSE)
    \/ \E in \in ByteWrites : WriteParameter("nv", in[1], in[2])
    \/ \E off \in ByteOffsets : DirectRead("nv", off)
    \/ \E off \in ByteOffsets, b \in ByteValues : DirectWrite("nv", off, b)
    \/ \E d \in RestoreBuffers : Restore("nv", d)

SpecBytes == Init /\ [][NextBytes]_vars

\* a Layout built entry by entry
CandidateEntries ==
    { Entry(200, 8, CMOSEntryHex, 0, "a"),
      Entry(304, 8, CMOSEntryHex, 0, "b"),
      Entry(204, 4, CMOSEntryHex, 0, "c"),
      Entry(192, 16, CMOSEntryHex, 0, "d"),
      Entry(203, 4, CMOSEntryHex, 0, "e"),
      Entry(2044, 8, CMOSEntryHex, 0, "f"),
      Entry(250, 12, CMOSEntryHex, 0, "g") }

CandidateItems ==
    { Item(7, 0, TxtOff), Item(7, 1, TxtOn), Item(7, 0, TxtOn),
      Item(7, 1, TxtOff), Item(8, 0, TxtOff), Item(8, 2, TxtAuto) }

NextLayout ==
    \/ \E entry \in CandidateEntries : AddEntry(entry)
    \/ \E item \in CandidateItems : AddEnum(item)

SpecLayout == Init /\ [][NextLayout]_vars

\* option tables: the header is 12 bytes, an entry record 56 bytes, an
\* enumeration record 48 bytes, a checksum record 24 bytes
EntryRec(size, e) == [tag |-> 201, size |-> size, e |-> e]
EnumRec(size, item) == [tag |-> 202, size |-> size, item |-> item]
ChecksumRec(size, start, end, index) ==
    [tag |-> 204, size |-> size, start |-> start, end |-> end, index |-> index]
OtherRec(tag, size) == [tag |-> tag, size |-> size]
OptionTable(tag, size, recs) == [tag |-> tag, size |-> size, headerLength |-> 12, recs |-> recs]

EntryFlag == Entry(115, 1, CMOSEntryHex, 0, "flag")
EntrySpeed == Entry(120, 8, CMOSEntryHex, 0, "speed")
EntryMode == Entry(416, 1, CMOSEntryEnum, 7, "mode")

\* a well-formed table
TableGood ==
    OptionTable(200, 236,
        (12 :> EntryRec(56, EntryFlag)) @@ (68 :> EntryRec(56, EntrySpeed))
        @@ (124 :> EnumRec(48, Item(7, 0, TxtOff))) @@ (172 :> EnumRec(48, Item(7, 1, TxtOn)))
        @@ (220 :> OtherRec(203, 16)))
\* the third record repeats (id 7, value 0); an enumeration, an entry and a
\* checksum record follow it
TableDuplicate ==
    OptionTable(200, 292,
        (12 :> EntryRec(56, EntryFlag)) @@ (68 :> EnumRec(48, Item(7, 0, TxtOff)))
        @@ (116 :> EnumRec(48, Item(7, 0, TxtOn))) @@ (164 :> EnumRec(48, Item(7, 1, TxtAuto)))
        @@ (212 :> EntryRec(56, EntrySpeed)) @@ (268 :> ChecksumRec(24, 112, 127, 128)))
\* the second record, of an unknown tag, carries size 0
TableZeroSize ==
    OptionTable(200, 124,
        (12 :> EntryRec(56, EntryFlag)) @@ (68 :> OtherRec(0, 0)) @@ (76 :> EntryRec(48, EntrySpeed)))
\* the first record, a checksum record, carries size 0
TableZeroChecksum ==
    OptionTable(200, 92, (12 :> ChecksumRec(0, 112, 127, 128)) @@ (36 :> EntryRec(56, EntryFlag)))
\* the first record, an entry record, carries size 0
TableZeroEntry ==
    OptionTable(200, 124, (12 :> EntryRec(0, EntryFlag)) @@ (68 :> EntryRec(56, EntrySpeed)))
\* the second entry overlaps the first
TableOverlap ==
    OptionTable(200, 124,
        (12 :> EntryRec(56, Entry(200, 8, CMOSEntryHex, 0, "a")))
        @@ (68 :> EntryRec(56, Entry(203, 4, CMOSEntryHex, 0, "b"))))
\* not an option table
TableBadTag == OptionTable(17, 16, << >>)
\* an option table without records
TableEmpty == OptionTable(200, 12, << >>)

OptionTables ==
    {TableGood, TableDuplicate, TableZeroSize, TableZeroChecksum, TableZeroEntry,
     TableOverlap, TableBadTag, TableEmpty}

\* a layout file whose second enumeration line repeats (id 7, value 0); an
\* enumeration line and a checksum line follow it
FileDuplicate ==
    << EntryLine(EntryFlag),
       EntryLine(EntryMode),
       EnumLine(Item(7, 0, TxtOff)),
       EnumLine(Item(7, 0, TxtOn)),
       EnumLine(Item(7, 1, TxtAuto)),
       ChecksumLine(112, 127, 128) >>

LoaderFiles == {File(FileMain), File(FileSmall), File(FileDuplicate), File(FileOverlap), FileMissing}

NextLoader ==
    \/ \E file \in LoaderFiles : LoadText(file)
    \/ \E table \in OptionTables : DecodeStart(table)
    \/ DecodeStep

SpecLoader == Init /\ [][NextLoader]_vars

\* physical memories: up to two signatures at 0x100, 0x800 (first window),
\* 0xF0000, 0xF0800, 0xF2000, 0xF3000 (second window), each valid or failing
\* one of the three tests; and a table that forwards to 0x100000
Table(addr, headerOk, tableOk, countOk, tableBytes, forward) ==
    [addr |-> addr, headerOk |-> headerOk, tableOk |-> tableOk, countOk |-> countOk,
     tableBytes |-> tableBytes, forward |-> forward]
TableAddrs == {256, 2048, 983040, 985088, 991232, 995328}
TableKinds == {<<TRUE, TRUE, TRUE>>, <<FALSE, TRUE, TRUE>>, <<TRUE, FALSE, TRUE>>, <<TRUE, TRUE, FALSE>>}
TablePool == {Table(a, k[1], k[2], k[3], 64, NoForward) : a \in TableAddrs, k \in TableKinds}
Memories ==
    {{}} \cup {{c} : c \in TablePool}
    \cup {{p[1], p[2]} : p \in {q \in TablePool \X TablePool : q[1].addr < q[2].addr}}
    \cup {{Table(256, TRUE, TRUE, TRUE, 64, 1048576), Table(1048576, TRUE, TRUE, TRUE, 64, NoForward)},
          {Table(256, TRUE, TRUE, TRUE, 64, 1048576)}}

NextCoreboot == \E memory \in Memories : ScanCoreboot(memory)

SpecCoreboot == Init /\ [][NextCoreboot]_vars

\* checksum descriptors built from bit offsets: byte 13, 14, 15, 100, 120,
\* 129, 254, 255 and 256, aligned and not
ChecksumStarts == {104, 112, 113, 800, 960, 2032}
ChecksumEnds == {111, 119, 126, 127, 1039, 2039, 2047, 2055}
ChecksumIndexes == {104, 112, 120, 121, 128, 800, 1040, 2032, 2040, 2048}

NextChecksum ==
    \E start \in ChecksumStarts, end \in ChecksumEnds, index \in ChecksumIndexes :
        NewChecksum(start, end, index)

SpecChecksum == Init /\ [][NextChecksum]_vars

\* ------------------------------------------------------------------------
\* Properties
\* ------------------------------------------------------------------------
\* this step is a call of op
IsCall(op) == ops' = ops + 1 /\ last'.op = op

Stores == {"hw", "mem"}

\* the sum of mem[lo..hi]
RECURSIVE SumBytes(_, _, _)
SumBytes(mem, lo, hi) ==
    IF lo > hi THEN 0
    ELSE IF lo = hi THEN At(mem, lo)
    ELSE SumBytes(mem, lo, (lo + hi) \div 2) + SumBytes(mem, (lo + hi) \div 2 + 1, hi)

\* the two bytes at c.index (high) and c.index + 1 (low) hold the 16-bit
\* wrapping sum of the bytes c.start..c.end
StoredChecksumMatches(mem, c) ==
    /\ c.index + 1 < cmosSize
    /\ At(mem, c.index) * 256 + At(mem, c.index + 1) = SumBytes(mem, c.start, c.end) % 65536

\* C1: after an Open that took the lock and then failed (layout load error
\* or accessor open error) the lock flag is 0.
C1_FailedOpenReleasesLock ==
    (last.op = "Open" /\ last.err \notin {ErrNil, ErrNVRAMAccessInUse}) => lockstate = 0

\* C2: while one session is open (its Open succeeded, its Close has not been
\* called), every Open returns AccessInUse and changes neither the lock flag
\* nor any NVRAM object nor any CMOS byte.
C2_OpenWhileOpenIsRefused ==
    [][(IsCall("Open") /\ \E t \in Objects : nv[t].accessor # "nil")
          => (last'.err = ErrNVRAMAccessInUse /\ UNCHANGED <<lockstate, nv, cmos, hwbud>>)]_vars

\* C3: when a session that performed a successful write_parameter (modified
\* is set) is closed, over an accessor that returns no I/O error, the bytes
\* at descriptor.index and descriptor.index+1 then hold, big-endian, the
\* 16-bit wrapping sum of the bytes descriptor.start..descriptor.end.
C3_ChecksumStableAfterClose ==
    [][(/\ IsCall("Close")
        /\ nv[last'.s].modified
        /\ nv[last'.s].accessor # "nil"
        /\ hwbud = NoFault)
          => StoredChecksumMatches(cmos'[StoreOf(nv[last'.s].accessor)], nv[last'.s].checksum)]_vars

\* C4: whenever a write_parameter call has changed a CMOS byte, also when it
\* fails part-way, the dirty flag is set when it returns.
C4_ChangedBytesSetDirty ==
    [][(IsCall("Write") /\ cmos' # cmos) => nv'[last'.s].modified]_vars

\* C5: Close always ends with the accessor closed and the lock flag 0,
\* whatever the dirty flag and whether or not the checksum could be computed
\* and written.
C5_CloseAlwaysClosesAndUnlocks ==
    last.op = "Close" => (nv[last.s].accessor = "nil" /\ lockstate = 0)

\* Close has returned from a dirty session whose checksum it could not
\* compute or write (modified is still set), unlocked and closed.
C5_Witness ==
    /\ last.op = "Close"
    /\ nv[last.s].modified
    /\ nv[last.s].accessor = "nil"
    /\ lockstate = 0

\* C6: when the session is dirty and computing or writing the checksum fails
\* during Close (modified stays set), Close returns a non-nil error.
C6_CloseReportsChecksumError ==
    (last.op = "Close" /\ nv[last.s].modified) => last.err # ErrNil

\* C7: a bit-range write of an entry E of the layout, by write_parameter or
\* by WriteEntry with any buffer, changes no CMOS bit outside
\* [E.bit, E.bit + E.length - 1].
C7_WriteLeavesOtherBitsUnchanged ==
    [][(IsCall("Write") \/ IsCall("WriteEntry")) =>
          LET f == FindCMOSEntry(nv[last'.s].layout, last'.name)
              E == f.entry
          IN  \A k \in Stores, i \in 0..(cmosSize - 1) :
                  At(cmos'[k], i) # At(cmos[k], i) =>
                      /\ f.ok
                      /\ \A j \in 0..7 :
                             Bit(At(cmos'[k], i), j) # Bit(At(cmos[k], i), j) =>
                                 (E.bit <= 8 * i + j /\ 8 * i + j <= E.bit + E.length - 1)]_vars

\* write_parameter("flag", 1) over a byte that held 0xF0 has set bit 3 of
\* byte 14 and kept its other bits (0xF8).
C7_Witness ==
    /\ last.op = "Write"
    /\ last.name = "flag"
    /\ last.arg = U64(1)
    /\ last.err = ErrNil
    /\ At(cmos[StoreOf(nv[last.s].accessor)], 14) = 248

\* C8: a successful write_parameter(name, x) of a Hex entry with a uint64 x,
\* or of an Enum entry with a text, followed by a successful
\* read_parameter(name), returns x.
C8_RoundTrip ==
    [][(/\ IsCall("Read")
        /\ last'.err = ErrNil
        /\ last.op = "Write"
        /\ last.err = ErrNil
        /\ last.s = last'.s
        /\ last.name = last'.name)
          => LET E == FindCMOSEntry(nv[last.s].layout, last.name).entry
             IN  /\ (E.config = CMOSEntryHex /\ last.arg.type = "uint64") => last'.val = last.arg
                 /\ (E.config = CMOSEntryEnum /\ last.arg.type = "string") => last'.val = last.arg]_vars

\* read_parameter("boot") has returned the 12-bit value 0xABC written before.
C8_Witness ==
    /\ last.op = "Read"
    /\ last.name = "boot"
    /\ last.err = ErrNil
    /\ last.val = U64(2748)

\* no step changes a byte of the RTC area
RTCUnchanged == \A k \in Stores, i \in 0..(cmosRTCAreaSize - 1) : At(cmos'[k], i) = At(cmos[k], i)

\* this step is a byte read or write with an index outside 14..255
BadIndexByteCall ==
    /\ IsCall("ReadByte") \/ IsCall("WriteByte")
    /\ last'.arg.n < cmosRTCAreaSize \/ last'.arg.n >= cmosSize

\* C9 as stated: bytes 0..13 are never changed by any operation, and every
\* byte read or write with index < 14 or index >= 256 is rejected with
\* InvalidIndex and writes nothing.
C9_RTCGuardedWithInvalidIndex ==
    [][/\ RTCUnchanged
       /\ BadIndexByteCall => (last'.err = ErrInvalidCMOSIndex /\ cmos' = cmos)]_vars

\* C9 as amended: bytes 0..13 are never changed by any operation, and every
\* byte read or write with index < 14 or index >= 256 writes nothing and is
\* rejected, with InvalidIndex when the accessor is open and with NotOpen
\* when it is closed.
C9_RTCGuarded ==
    [][/\ RTCUnchanged
       /\ BadIndexByteCall =>
              /\ cmos' = cmos
              /\ last'.err = IF nv[last'.s].accessor = "nil"
                             THEN ErrCMOSNotOpen
                             ELSE ErrInvalidCMOSIndex]_vars

\* a byte write at index 13 through an open accessor was rejected with
\* InvalidIndex.
C9_Witness ==
    /\ last.op = "WriteByte"
    /\ last.arg.n = 13
    /\ nv[last.s].accessor # "nil"
    /\ last.err = ErrInvalidCMOSIndex

\* closed bit-ranges [bit, bit + length - 1] of two entries intersect
RangesOverlap(a, b) ==
    \E p \in a.bit..(a.bit + a.length - 1) : b.bit <= p /\ p <= b.bit + b.length - 1

\* C10: after any sequence of add_entry calls no two entries held by the
\* layout have overlapping closed bit-ranges.
C10_NoOverlappingEntries ==
    \A i, j \in 1..Len(lay.entrieslist) :
        i < j => ~RangesOverlap(lay.entrieslist[i], lay.entrieslist[j])

\* C11: after any sequence of successful add_entry calls, in any insertion
\* order, the entry list of the layout is sorted by bit in ascending order.
C11_EntriesSortedByBit ==
    \A i \in 1..(Len(lay.entrieslist) - 1) :
        lay.entrieslist[i].bit <= lay.entrieslist[i + 1].bit

\* the ids, values and texts the enum lookups are asked for
EnumIds == {i.id : i \in CandidateItems} \cup {9}
EnumValues == {i.value : i \in CandidateItems} \cup {3}
EnumTexts == {i.text : i \in CandidateItems} \cup {TxtBogus}

\* C12: after any sequence of add_enum_item calls the two enum lookups are
\* mutually inverse for every id: when find_enum_text(id, v) succeeds with t,
\* find_enum_value(id, t) returns v, and when find_enum_value(id, t) succeeds
\* with v, find_enum_text(id, v) returns t.
C12_EnumLookupsInverse ==
    \A id \in EnumIds :
        /\ \A v \in EnumValues :
               LET t == FindCMOSEnumText(lay, id, v)
               IN  t.ok => FindCMOSEnumValue(lay, id, t.text) = [ok |-> TRUE, value |-> v]
        /\ \A x \in EnumTexts :
               LET n == FindCMOSEnumValue(lay, id, x)
               IN  n.ok => FindCMOSEnumText(lay, id, n.value) = [ok |-> TRUE, text |-> x]

\* the value's type is not the one the entry's kind requires
WrongType(config, value) ==
    \/ config \in {CMOSEntryString, CMOSEntryEnum} /\ value.type # "string"
    \/ config = CMOSEntryHex /\ value.type # "uint64"

TypeMismatchErrors == {"A string value is required.", "A uint64 value is required."}

\* C13: a write_parameter, through an open accessor that returns no I/O
\* error, with a value of the wrong type for the entry's kind fails with a
\* type-mismatch error, writes no CMOS byte and does not set dirty.
C13_WrongTypeRejected ==
    [][(/\ IsCall("Write")
        /\ nv[last'.s].accessor # "nil"
        /\ hwbud = NoFault
        /\ last'.name # "check_sum"
        /\ FindCMOSEntry(nv[last'.s].layout, last'.name).ok
        /\ WrongType(FindCMOSEntry(nv[last'.s].layout, last'.name).entry.config, last'.arg))
          => (/\ last'.err \in TypeMismatchErrors
              /\ cmos' = cmos
              /\ nv'[last'.s].modified = nv[last'.s].modified)]_vars

\* write_parameter(name, value) on layout l is one the code must reject
\* before any byte access: unknown name, check_sum, a Reserved entry, an
\* entry in the RTC area, an enum text that is not registered, or a value
\* too wide for the entry
RejectedBeforeAccess(l, name, value) ==
    LET f == FindCMOSEntry(l, name)
        E == f.entry
        ev == FindCMOSEnumValue(l, E.config_id, value.s)
    IN  \/ ~f.ok
        \/ name = "check_sum"
        \/ E.config = CMOSEntryReserved
        \/ E.bit < 8 * cmosRTCAreaSize
        \/ /\ E.config = CMOSEntryEnum
           /\ value.type = "string"
           /\ ~ev.ok \/ (E.length < 31 /\ ev.value >= 2 ^ E.length)
        \/ /\ E.config = CMOSEntryHex
           /\ value.type = "uint64"
           /\ E.length < 31
           /\ value.n >= 2 ^ E.length
        \/ /\ E.config = CMOSEntryString
           /\ value.type = "string"
           /\ Len(value.s) * 8 > E.length

\* C14: a write_parameter that is rejected before any byte access returns an
\* error, leaves all 256 CMOS bytes unchanged, performs no port access and
\* leaves dirty unchanged.
C14_RejectedWriteChangesNothing ==
    [][(IsCall("Write") /\ RejectedBeforeAccess(nv[last'.s].layout, last'.name, last'.arg))
          => (/\ last'.err # ErrNil
              /\ cmos' = cmos
              /\ hwbud' = hwbud
              /\ nv'[last'.s].modified = nv[last'.s].modified)]_vars

\* through an open accessor, write_parameter("mode", "bogus") was rejected
\* and write_parameter of a Reserved entry was rejected
C14_Witness ==
    /\ last.op = "Write"
    /\ nv[last.s].accessor # "nil"
    /\ last.err # ErrNil
    /\ \/ last.name = "mode" /\ last.arg = Str(TxtBogus)
       \/ last.name = "rsvd" /\ FindCMOSEntry(nv[last.s].layout, "rsvd").ok

\* the condition under which new_checksum_descriptor is said to succeed,
\* for arguments given in bits
ChecksumAccepted(start, end, index) ==
    LET s == start \div 8
        e == end \div 8
        i == index \div 8
    IN  /\ start % 8 = 0
        /\ end % 8 = 7
        /\ index % 8 = 0
        /\ e > s
        /\ \A b \in {s, e, i} : cmosRTCAreaSize <= b /\ b < cmosSize
        /\ ~(\E b \in s..e : b \in {i, i + 1})

\* C15: new_checksum_descriptor(start, end, index), given in bits, succeeds
\* exactly when start mod 8 = 0, end mod 8 = 7, index mod 8 = 0 and, in
\* bytes, end > start, all three lie in 14..255 and [start, end] does not
\* intersect [index, index + 1]; on success the descriptor holds those byte
\* values, otherwise an error is returned and no descriptor.
C15_ChecksumDescriptorExact ==
    last.op = "NewCMOSChecksum" =>
        LET a == last.arg.s
        IN  IF ChecksumAccepted(a[1], a[2], a[3])
            THEN /\ last.err = ErrNil
                 /\ lay.cmosChecksum = [start |-> a[1] \div 8, end |-> a[2] \div 8, index |-> a[3] \div 8]
            ELSE /\ last.err # ErrNil
                 /\ lay.cmosChecksum = NilChecksum

\* layout l holds what the record or line x of a loader's input describes
RecordPresent(l, x) ==
    IF "e" \in DOMAIN x THEN FindCMOSEntry(l, x.e.name) = [ok |-> TRUE, entry |-> x.e]
    ELSE IF "item" \in DOMAIN x THEN FindCMOSEnumText(l, x.item.id, x.item.value).ok
    ELSE IF "start" \in DOMAIN x
    THEN l.cmosChecksum = NewCMOSChecksum(x.start, x.end, x.index).c
    ELSE TRUE

\* the records of a binary table, the lines of a text file
InputRecords(ld) ==
    IF ld.kind = "bin"
    THEN {ld.input.recs[a] : a \in DOMAIN ld.input.recs}
    ELSE {ld.input.lines[i] : i \in DOMAIN ld.input.lines}

\* C16: when a loader (binary decoder or text parser) returns success, the
\* layout it returns holds every entry, enum item and checksum record of its
\* input, also those that follow an enum item whose (id, value) is already
\* present.
C16_LoaderKeepsRecordsAfterDuplicate ==
    (load.status = "done" /\ load.err = ErrNil) =>
        \A x \in InputRecords(load) : RecordPresent(load.layout, x)

\* C20: the option-table decoder terminates on every input whose first
\* record has tag 200: no iteration of its loop leaves the decoder where it
\* was (same address, same layout, still in the loop), also when an inner
\* record carries a size field of 0.
C20_DecoderTerminates ==
    [][(/\ load.kind = "bin"
        /\ load.status = "running"
        /\ load'.steps = load.steps + 1
        /\ load'.status = "running")
          => <<load'.address, load'.layout>> # <<load.address, load.layout>>]_vars

\* a table without forwarding record that passes the three tests, at a
\* 16-byte-aligned offset of one of the two windows
ValidTableInWindow(c) ==
    /\ c.headerOk /\ c.tableOk /\ c.countOk
    /\ c.forward = NoForward
    /\ c.addr % 16 = 0
    /\ (0 <= c.addr /\ c.addr <= 4095) \/ (983040 <= c.addr /\ c.addr <= 1048575)

\* C17: in the coreboot scan a rejected signature match only resumes the
\* scan, so a valid table located after a rejected candidate in the same
\* window is found: TableNotFound is returned only when no offset of either
\* window holds a valid table.
C17_ScanResumesAfterRejection ==
    (last.op = "CoreBootTableOpen" /\ last.err # ErrNil) =>
        ~(\E c \in last.arg.tables : ValidTableInWindow(c))


\* C18: the lock flag is 1 whenever some session is open, and a Close on a
\* session object that does not hold the lock does not release the lock of
\* another open session: at no point do two sessions have an open accessor
\* at the same time, under any interleaving of Open and Close by two callers.
C18_OneOpenSessionHoldsLock ==
    \A s \in Objects, t \in Objects :
        (nv[s].accessor # "nil" /\ nv[t].accessor # "nil") => (s = t /\ lockstate = 1)

\* C19: for every checksum descriptor accepted by new_checksum_descriptor,
\* both bytes of the checksum location, index and index + 1, are valid CMOS
\* indices (14..255), so writing the checksum never fails with InvalidIndex
\* after the high byte has already been written.
C19_ChecksumLocationValid ==
    (last.op = "NewCMOSChecksum" /\ last.err = ErrNil) =>
        /\ lay.cmosChecksum.index \in 14..255
        /\ lay.cmosChecksum.index + 1 \in 14..255
        /\ WriteChecksum("mem", Store(0), lay.cmosChecksum, 258, NoFault).err # ErrInvalidCMOSIndex

====
